---- MODULE Spec2Model ----
(***************************************************************************)
(* ListValue of types/basetypes/list_value.go: the three constructors, the *)
(* Elements accessor, Equal, String and ToTerraformValue, driven by a      *)
(* caller that keeps the slice it passed to NewListValue and the slices    *)
(* Elements() handed back, and writes to them.                             *)
(*                                                                         *)
(* Go slices are modelled as headers [arr, len] over a heap of backing     *)
(* arrays (the capacity of a header is the length of its array), so that   *)
(* two headers over one array alias as they do in Go.                      *)
(***************************************************************************)
EXTENDS Integers, Sequences, FiniteSets, TLC

\* Longest elements slice a caller passes to a constructor.
MaxLen == 2
\* Number of Elements() results the caller keeps at once.
MaxCopies == 2
\* Number of changes (s[i] = e, append, s[:n]) the caller makes to the
\* slices it holds between two constructor calls.
MaxWrites == 1
\* Longest run of diagnostics a response holds before an engine call, and
\* longest run a provider callback returns.
MaxDiags == 1
\* Largest element type of a ListAttribute, counted in type descriptors
\* (list<list<string>> has three).
MaxTypeNodes == 4

(***************************************************************************)
(* attr.Type and attr.Value: the element types and element values used to  *)
(* exercise the list.                                                      *)
(***************************************************************************)
ElemTypes == {"String", "Number", "Dynamic"}

\* Sx: known string "x"; Sn: null string; N1: known number 1;
\* DynNull/DynUnk: null/unknown dynamic; DynS/DynN: known dynamic wrapping
\* Sx/N1; DynBad: a provider-defined dynamic value whose ToTerraformValue
\* returns an error.
ElemVals == {"Sx", "Sn", "N1", "DynNull", "DynUnk", "DynS", "DynN", "DynBad"}

\* element.Type(ctx)
TypeOf(e) ==
  CASE e \in {"Sx", "Sn"} -> "String"
    [] e = "N1" -> "Number"
    [] OTHER -> "Dynamic"

\* elementType.Equal(other)
TypeEqual(a, b) == a = b

\* lElem.Equal(otherElem)
ElemEqual(a, b) == a = b

\* e.String()
ElemString(e) ==
  CASE e \in {"Sx", "DynS"} -> "\"x\""
    [] e \in {"Sn", "DynNull"} -> "<null>"
    [] e \in {"N1", "DynN"} -> "1"
    [] OTHER -> "<unknown>"

(***************************************************************************)
(* tftypes: wire types and wire values.                                    *)
(***************************************************************************)
DynamicPseudoType == [kind |-> "primitive", name |-> "DynamicPseudoType"]
TfString == [kind |-> "primitive", name |-> "String"]
TfNumber == [kind |-> "primitive", name |-> "Number"]
TfList(et) == [kind |-> "list", elem |-> et]

\* elementType.TerraformType(ctx)
TerraformType(t) ==
  CASE t = "String" -> TfString
    [] t = "Number" -> TfNumber
    [] OTHER -> DynamicPseudoType

\* tftypes.NewValue(typ, nil), tftypes.NewValue(typ, tftypes.UnknownValue),
\* tftypes.NewValue(typ, payload)
TfNull(typ) == [typ |-> typ, state |-> "null", payload |-> <<>>]
TfUnknown(typ) == [typ |-> typ, state |-> "unknown", payload |-> <<>>]
TfKnown(typ, payload) == [typ |-> typ, state |-> "known", payload |-> payload]

NoError == "nil"

\* elem.ToTerraformValue(ctx): (tftypes.Value, error)
ElemToTerraformValue(e) ==
  CASE e = "Sx" -> [val |-> TfKnown(TfString, <<"x">>), err |-> NoError]
    [] e = "Sn" -> [val |-> TfNull(TfString), err |-> NoError]
    [] e = "N1" -> [val |-> TfKnown(TfNumber, <<"1">>), err |-> NoError]
    [] e = "DynNull" -> [val |-> TfNull(DynamicPseudoType), err |-> NoError]
    [] e = "DynUnk" -> [val |-> TfUnknown(DynamicPseudoType), err |-> NoError]
    [] e = "DynS" -> [val |-> TfKnown(TfString, <<"x">>), err |-> NoError]
    [] e = "DynN" -> [val |-> TfKnown(TfNumber, <<"1">>), err |-> NoError]
    [] OTHER -> [val |-> TfUnknown(DynamicPseudoType), err |-> "element conversion error"]

\* val.Type().Is(tftypes.DynamicPseudoType)
IsDynamicPseudoType(typ) == typ = DynamicPseudoType

\* tftypes: a primitive type is usable as itself and as DynamicPseudoType.
UsableAs(typ, as) == IsDynamicPseudoType(as) \/ typ = as

\* tftypes.ValidateValue(tftypes.List{ElementType: et}, vals): every element
\* must be usable as et, and all elements must have the type of the first.
RECURSIVE ValidateListElements(_, _, _)
ValidateListElements(et, vals, pos) ==
  IF pos > Len(vals) THEN NoError
  ELSE IF ~UsableAs(vals[pos].typ, et) THEN "can't use element type as list element type"
  ELSE IF vals[pos].typ # vals[1].typ THEN "lists must only contain one type of element"
  ELSE ValidateListElements(et, vals, pos + 1)

ValidateValue(listType, vals) == ValidateListElements(listType.elem, vals, 1)

(***************************************************************************)
(* The heap of backing arrays and the slices over it.                      *)
(***************************************************************************)
Addrs == 1..(MaxCopies + 2)

NilSlice == [arr |-> 0, len |-> 0]

VARIABLES
  heap,    \* backing arrays: address -> sequence of element values
  l,       \* the ListValue under test: [elementType, state, elements]
  arg,     \* the slice the caller passed to NewListValue and still holds
  got,     \* the slices Elements() returned, in call order
  writes,  \* caller writes made since the last constructor call
  op,      \* the operation that ran last
  ret,     \* what it returned
  req,       \* the request of the engine call in progress
  resp,      \* the response the engine call writes to (passed by pointer)
  attribute  \* the ListAttribute definition being validated

vars == <<heap, l, arg, got, writes, op, ret, req, resp, attribute>>

\* What the framework's engine calls hold; no ListValue operation touches it.
engine == <<req, resp, attribute>>

\* The elements a slice header shows.
SliceOf(hp, h) == IF h.arr = 0 THEN <<>> ELSE SubSeq(hp[h.arr], 1, h.len)

\* All sequences over S of length at most n.
SeqsUpTo(S, n) == UNION {[1..k -> S] : k \in 0..n}

\* Garbage collection: an array no header points to is dropped.
Collect(hp, headers) ==
  [a \in Addrs |-> IF \E h \in headers : h.arr = a THEN hp[a] ELSE <<>>]

\* make([]attr.Value, ...): the lowest address no live header points to.
FreeAddr(headers) ==
  CHOOSE a \in Addrs :
    /\ \A h \in headers : h.arr # a
    /\ \A b \in Addrs : (\A h \in headers : h.arr # b) => a <= b

Range(s) == {s[i] : i \in 1..Len(s)}

(***************************************************************************)
(* Constructors.                                                           *)
(***************************************************************************)
\* NewListNull that leaves elementType unset.
NewListNull_NoType(elementType) ==
  [elementType |-> "nil", state |-> "Null", elements |-> NilSlice]

\* NewListNull(elementType)
NewListNull(elementType) ==
  [elementType |-> elementType, state |-> "Null", elements |-> NilSlice]

\* NewListUnknown(elementType)
NewListUnknown(elementType) ==
  [elementType |-> elementType, state |-> "Unknown", elements |-> NilSlice]

\* diags.AddError("Invalid List Element Type", ... index, both types)
InvalidElementDiag(elementType, idx, actual) ==
  [severity |-> "Error", summary |-> "Invalid List Element Type",
   listElementType |-> elementType, index |-> idx, elementTypeAtIndex |-> actual]

\* The loop of NewListValue over elements[from..]: idx is the 0-based Go index.
RECURSIVE CheckElementTypes(_, _, _, _)
CheckElementTypes(elementType, elems, from, diags) ==
  IF from > Len(elems) THEN diags
  ELSE CheckElementTypes(elementType, elems, from + 1,
         IF ~TypeEqual(elementType, TypeOf(elems[from]))
         THEN Append(diags, InvalidElementDiag(elementType, from - 1, TypeOf(elems[from])))
         ELSE diags)

\* diags.HasError()
HasError(diags) == \E i \in 1..Len(diags) : diags[i].severity = "Error"
\* NewListValue that returns the elements it was given beside the diagnostics.
NewListValue_KnownOnMismatch(elementType, elements, hp) ==
  [list |-> [elementType |-> elementType, state |-> "Known", elements |-> elements],
   diags |-> CheckElementTypes(elementType, SliceOf(hp, elements), 1, <<>>)]

\* NewListValue(elementType, elements): elements is the caller's slice header,
\* read through the heap hp; the header itself is stored in the value.
NewListValue(elementType, elements, hp) ==
  LET diags == CheckElementTypes(elementType, SliceOf(hp, elements), 1, <<>>)
  IN IF HasError(diags)
     THEN [list |-> NewListUnknown(elementType), diags |-> diags]
     ELSE [list |-> [elementType |-> elementType, state |-> "Known", elements |-> elements],
           diags |-> <<>>]

\* diagnostic.Detail() of the element type error, as the pieces formatted
\* into it (%s the list's element type, %d the index, %s the type found).
Detail(d) ==
  <<"List Element Type: ", d.listElementType, "\nList Index (", ToString(d.index),
    ") Element Type: ", d.elementTypeAtIndex>>

\* fmt.Sprintf("%s | %s | %s", Severity(), Summary(), Detail())
DiagString(d) == <<d.severity, " | ", d.summary, " | ">> \o Detail(d)

\* strings.Join(diagsStrings, "\n") over diags[i..]
RECURSIVE JoinDiagStrings(_, _, _)
JoinDiagStrings(diags, i, res) ==
  IF i > Len(diags) THEN res
  ELSE JoinDiagStrings(diags, i + 1,
         (IF i # 1 THEN Append(res, "\n") ELSE res) \o DiagString(diags[i]))

\* The argument of panic, as the sequence of the pieces concatenated.
PanicMessage(diags) ==
  <<"NewListValueMust received error(s): ">> \o JoinDiagStrings(diags, 1, <<>>)

\* NewListValueMust that hands back what NewListValue returned.
NewListValueMust_NoPanic(elementType, elements, hp) ==
  [panicked |-> FALSE, list |-> NewListValue(elementType, elements, hp).list,
   message |-> <<>>]

\* NewListValueMust(elementType, elements)
NewListValueMust(elementType, elements, hp) ==
  LET r == NewListValue(elementType, elements, hp)
  IN IF HasError(r.diags)
     THEN [panicked |-> TRUE, list |-> r.list, message |-> PanicMessage(r.diags)]
     ELSE [panicked |-> FALSE, list |-> r.list, message |-> <<>>]

(***************************************************************************)
(* Accessors.                                                              *)
(***************************************************************************)
\* Elements that returns l.elements itself.
Elements_NoCopy(lv, hp, a) == [slice |-> lv.elements, heap |-> hp]

\* l.Elements(): make + append into a fresh array at address a.
Elements(lv, hp, a) ==
  [slice |-> [arr |-> a, len |-> lv.elements.len],
   heap |-> [hp EXCEPT ![a] = SliceOf(hp, lv.elements)]]

\* l.ElementType(ctx)
ElementType(lv) == lv.elementType

\* The value as its readers see it: the struct with the slice dereferenced.
View(lv, hp) ==
  [isList |-> TRUE, elementType |-> lv.elementType, state |-> lv.state,
   elements |-> SliceOf(hp, lv.elements)]

\* attr.Value that is no ListValue (a StringValue).
NotAList == [isList |-> FALSE, elementType |-> "String", state |-> "Known", elements |-> <<>>]

\* _, ok := l.ElementType(ctx).(attr.TypeWithDynamicValue)
IsTypeWithDynamicValue(t) == t = "Dynamic"

\* The first loop of ToTerraformValue: the wire type of the first element
\* that converts without error to a value that is not DynamicPseudoType, or
\* elemTfType when there is none.
RECURSIVE FirstConcreteType(_, _, _)
FirstConcreteType(elems, i, elemTfType) ==
  IF i > Len(elems) THEN elemTfType
  ELSE LET c == ElemToTerraformValue(elems[i])
       IN IF c.err = NoError /\ ~IsDynamicPseudoType(c.val.typ)
          THEN c.val.typ
          ELSE FirstConcreteType(elems, i + 1, elemTfType)

\* The second loop without the rebuilding of DynamicPseudoType values.
Rewrap_Keep(val, elemTfType) == val

\* The body of the second loop: a null or unknown DynamicPseudoType value is
\* rebuilt with elemTfType.
Rewrap(val, elemTfType) ==
  IF IsDynamicPseudoType(val.typ)
  THEN IF val.state = "null" THEN TfNull(elemTfType)
       ELSE IF val.state # "known" THEN TfUnknown(elemTfType)
       ELSE val
  ELSE val

\* The second loop of ToTerraformValue: vals, or the first conversion error.
RECURSIVE ConvertElements(_, _, _, _)
ConvertElements(elems, i, elemTfType, vals) ==
  IF i > Len(elems) THEN [vals |-> vals, err |-> NoError]
  ELSE LET c == ElemToTerraformValue(elems[i])
       IN IF c.err # NoError
          THEN [vals |-> vals, err |-> c.err]
          ELSE ConvertElements(elems, i + 1, elemTfType,
                               Append(vals, Rewrap(c.val, elemTfType)))

\* tftypes.NewValue(listType, vals) panics when the payload does not validate.
NewListWireValue(listType, vals) ==
  IF ValidateValue(listType, vals) # NoError
  THEN [val |-> TfUnknown(listType), err |-> NoError, panicked |-> TRUE]
  ELSE [val |-> TfKnown(listType, vals), err |-> NoError, panicked |-> FALSE]
\* The Known case without the tftypes.ValidateValue call.
KnownToTerraformValue_NoValidate(v, listType) ==
  LET elemTfType == IF IsTypeWithDynamicValue(v.elementType)
                    THEN FirstConcreteType(v.elements, 1, TerraformType(v.elementType))
                    ELSE TerraformType(v.elementType)
      c == ConvertElements(v.elements, 1, elemTfType, <<>>)
  IN IF c.err # NoError
     THEN [val |-> TfUnknown(listType), err |-> c.err, panicked |-> FALSE]
     ELSE NewListWireValue(listType, c.vals)

\* The attr.ValueStateKnown case of ToTerraformValue.
KnownToTerraformValue(v, listType) ==
  LET elemTfType == IF IsTypeWithDynamicValue(v.elementType)
                    THEN FirstConcreteType(v.elements, 1, TerraformType(v.elementType))
                    ELSE TerraformType(v.elementType)
      c == ConvertElements(v.elements, 1, elemTfType, <<>>)
  IN IF c.err # NoError
     THEN [val |-> TfUnknown(listType), err |-> c.err, panicked |-> FALSE]
     ELSE IF ValidateValue(listType, c.vals) # NoError
     THEN [val |-> TfUnknown(listType), err |-> ValidateValue(listType, c.vals),
           panicked |-> FALSE]
     ELSE NewListWireValue(listType, c.vals)
\* ToTerraformValue with the markers of the Null and Unknown cases exchanged.
ToTerraformValue_MarkersSwapped(v) ==
  LET listType == TfList(TerraformType(ElementType(v)))
  IN CASE v.state = "Known" -> KnownToTerraformValue(v, listType)
       [] v.state = "Null" -> [val |-> TfUnknown(listType), err |-> NoError, panicked |-> FALSE]
       [] OTHER -> [val |-> TfNull(listType), err |-> NoError, panicked |-> FALSE]

\* l.ToTerraformValue(ctx) on the view v of l.
ToTerraformValue(v) ==
  LET listType == TfList(TerraformType(ElementType(v)))
  IN CASE v.state = "Known" -> KnownToTerraformValue(v, listType)
       [] v.state = "Null" -> [val |-> TfNull(listType), err |-> NoError, panicked |-> FALSE]
       [] v.state = "Unknown" -> [val |-> TfUnknown(listType), err |-> NoError, panicked |-> FALSE]
       [] OTHER -> [val |-> TfUnknown(listType), err |-> NoError, panicked |-> TRUE]

\* The loop of Equal over the elements, from index idx.
RECURSIVE ElementsEqual(_, _, _)
ElementsEqual(les, oes, idx) ==
  IF idx > Len(les) THEN TRUE
  ELSE IF ~ElemEqual(les[idx], oes[idx]) THEN FALSE
  ELSE ElementsEqual(les, oes, idx + 1)
\* Equal without the comparison of the states.
Equal_NoStateCheck(v, o) ==
  IF ~o.isList THEN FALSE
  ELSE IF ~TypeEqual(v.elementType, o.elementType) THEN FALSE
  ELSE IF v.state # "Known" THEN TRUE
  ELSE IF Len(v.elements) # Len(o.elements) THEN FALSE
  ELSE ElementsEqual(v.elements, o.elements, 1)

\* Equal that rejects only a longer receiver (> for !=).
Equal_LenGreater(v, o) ==
  IF ~o.isList THEN FALSE
  ELSE IF ~TypeEqual(v.elementType, o.elementType) THEN FALSE
  ELSE IF v.state # o.state THEN FALSE
  ELSE IF v.state # "Known" THEN TRUE
  ELSE IF Len(v.elements) > Len(o.elements) THEN FALSE
  ELSE ElementsEqual(v.elements, o.elements, 1)

\* l.Equal(o) on the views of l and o.
Equal(v, o) ==
  IF ~o.isList THEN FALSE
  ELSE IF ~TypeEqual(v.elementType, o.elementType) THEN FALSE
  ELSE IF v.state # o.state THEN FALSE
  ELSE IF v.state # "Known" THEN TRUE
  ELSE IF Len(v.elements) # Len(o.elements) THEN FALSE
  ELSE ElementsEqual(v.elements, o.elements, 1)

\* The loop of String: the elements' strings, comma-separated.
RECURSIVE JoinElements(_, _, _)
JoinElements(es, i, res) ==
  IF i > Len(es) THEN res
  ELSE JoinElements(es, i + 1,
         (IF i # 1 THEN Append(res, ",") ELSE res) \o <<ElemString(es[i])>>)

\* l.String() on the view v of l, as the sequence of the pieces written.
String(v) ==
  IF v.state = "Unknown" THEN <<"<unknown>">>
  ELSE IF v.state = "Null" THEN <<"<null>">>
  ELSE JoinElements(v.elements, 1, <<"[">>) \o <<"]">>

(***************************************************************************)
(* State machine.                                                          *)
(***************************************************************************)
EmptyHeap == [a \in Addrs |-> <<>>]

\* var l ListValue: the zero value, held before any constructor has returned.
ZeroList == [elementType |-> "nil", state |-> "Null", elements |-> NilSlice]

Live == {l.elements, arg} \cup Range(got)

\* The caller holds no list value and no slice.
Init ==
  /\ heap = EmptyHeap
  /\ l = ZeroList
  /\ arg = NilSlice
  /\ got = <<>>
  /\ writes = 0
  /\ op = "none"
  /\ ret = <<>>
  /\ req = <<>>
  /\ resp = <<>>
  /\ attribute = <<>>

CallNewListNull ==
  /\ UNCHANGED engine
  /\ op = "none"
  /\ \E t \in ElemTypes :
       /\ l' = NewListNull(t)
       /\ op' = "NewListNull"
       /\ ret' = [elementType |-> t]
  /\ UNCHANGED <<heap, arg, got, writes>>

CallNewListUnknown ==
  /\ UNCHANGED engine
  /\ op = "none"
  /\ \E t \in ElemTypes :
       /\ l' = NewListUnknown(t)
       /\ op' = "NewListUnknown"
       /\ ret' = [elementType |-> t]
  /\ UNCHANGED <<heap, arg, got, writes>>

\* The caller builds a slice es at address 1 and passes it; it keeps the
\* slice it passed only while the returned value can refer to it.
CallNewListValue ==
  /\ UNCHANGED engine
  /\ op = "none"
  /\ \E t \in ElemTypes, es \in SeqsUpTo(ElemVals, MaxLen) :
       LET hp == [heap EXCEPT ![1] = es]
           h == [arr |-> 1, len |-> Len(es)]
           r == NewListValue(t, h, hp)
       IN /\ l' = r.list
          /\ arg' = IF r.list.elements = h THEN h ELSE NilSlice
          /\ heap' = Collect(hp, {r.list.elements})
          /\ op' = "NewListValue"
          /\ ret' = [elementType |-> t, elements |-> es, diags |-> r.diags]
  /\ UNCHANGED <<got, writes>>

\* A panic returns nothing: the caller's variable keeps its zero value.
CallNewListValueMust ==
  /\ UNCHANGED engine
  /\ op = "none"
  /\ \E t \in ElemTypes, es \in SeqsUpTo(ElemVals, MaxLen) :
       LET hp == [heap EXCEPT ![1] = es]
           h == [arr |-> 1, len |-> Len(es)]
           r == NewListValueMust(t, h, hp)
       IN /\ IF r.panicked
             THEN UNCHANGED <<l, arg, heap>>
             ELSE /\ l' = r.list
                  /\ arg' = h
                  /\ heap' = hp
          /\ op' = "NewListValueMust"
          /\ ret' = [elementType |-> t, elements |-> es, panicked |-> r.panicked,
                     message |-> r.message]
  /\ UNCHANGED <<got, writes>>

CallElements ==
  /\ UNCHANGED engine
  /\ l # ZeroList
  /\ Len(got) < MaxCopies
  /\ LET r == Elements(l, heap, FreeAddr(Live))
     IN /\ heap' = r.heap
        /\ got' = Append(got, r.slice)
        /\ ret' = [slice |-> r.slice]
  /\ op' = "Elements"
  /\ UNCHANGED <<l, arg, writes>>

(***************************************************************************)
(* The caller's writes to the slices it holds. Target 0 is the slice it    *)
(* passed to the constructor, target i > 0 the i-th Elements() result.     *)
(***************************************************************************)
Held(t) == IF t = 0 THEN arg ELSE got[t]

\* The value the caller writes: a number, whose type differs from the
\* element type of a string list and of a dynamic list.
WriteVals == {"N1"}

Targets == {t \in 0..Len(got) : t = 0 => arg # NilSlice}

SetHeld(t, h) ==
  /\ arg' = IF t = 0 THEN h ELSE arg
  /\ got' = IF t = 0 THEN got ELSE [got EXCEPT ![t] = h]

\* What a write to target t returns to the model: the target, and what the
\* value and the other slices showed before the write.
Written(t) ==
  [target |-> t,
   before |-> [list |-> View(l, heap),
               arg |-> IF t = 0 THEN <<>> ELSE SliceOf(heap, arg),
               got |-> [j \in (1..Len(got)) \ {t} |-> SliceOf(heap, got[j])]]]

\* s[idx] = e
WriteSlice ==
  /\ UNCHANGED engine
  /\ writes < MaxWrites
  /\ \E t \in Targets, e \in WriteVals :
      \E idx \in 1..Held(t).len :
       /\ heap' = [heap EXCEPT ![Held(t).arr][idx] = e]
       /\ ret' = Written(t)
  /\ op' = "WriteSlice"
  /\ writes' = writes + 1
  /\ UNCHANGED <<l, arg, got>>

\* s = append(s, e): in place while the capacity allows, otherwise into a
\* new array that holds the old elements and e.
AppendSlice ==
  /\ UNCHANGED engine
  /\ writes < MaxWrites
  /\ \E t \in Targets, e \in WriteVals :
       LET h == Held(t)
       IN /\ h.len < MaxLen
          /\ IF h.len < Len(heap[h.arr])
             THEN /\ heap' = [heap EXCEPT ![h.arr][h.len + 1] = e]
                  /\ SetHeld(t, [arr |-> h.arr, len |-> h.len + 1])
             ELSE LET others == {l.elements} \cup {Held(u) : u \in Targets \ {t}}
                      a == FreeAddr(others)
                      nh == [arr |-> a, len |-> h.len + 1]
                      hp == [heap EXCEPT ![a] = Append(SliceOf(heap, h), e)]
                  IN /\ SetHeld(t, nh)
                     /\ heap' = Collect(hp, others \cup {nh})
          /\ ret' = Written(t)
  /\ op' = "AppendSlice"
  /\ writes' = writes + 1
  /\ UNCHANGED l

\* s = s[:n]
TruncateSlice ==
  /\ UNCHANGED engine
  /\ writes < MaxWrites
  /\ \E t \in Targets :
      \E n \in 0..(Held(t).len - 1) :
       /\ SetHeld(t, [arr |-> Held(t).arr, len |-> n])
       /\ ret' = Written(t)
  /\ op' = "TruncateSlice"
  /\ writes' = writes + 1
  /\ UNCHANGED <<l, heap>>

\* A list value as the constructors build it from elements es.
MakeList(t, st, es) ==
  [isList |-> TRUE, elementType |-> t, state |-> st,
   elements |-> IF st = "Known" THEN es ELSE <<>>]

\* The values l is compared with: itself, a value that is no list, the
\* null and unknown lists of its type, the list of another element type,
\* and known lists whose elements are those of l, fewer, more, or differ
\* in the last element.
Partners(v) ==
  LET es == v.elements
      n == Len(es)
  IN {v, NotAList,
      MakeList(v.elementType, "Null", <<>>),
      MakeList(v.elementType, "Unknown", <<>>),
      MakeList(IF v.elementType = "String" THEN "Dynamic" ELSE "String", v.state, es),
      MakeList(v.elementType, "Known", Append(es, "DynUnk"))}
     \cup (IF n = 0 THEN {}
           ELSE {MakeList(v.elementType, "Known", SubSeq(es, 1, n - 1)),
                 MakeList(v.elementType, "Known",
                          [es EXCEPT ![n] = IF es[n] = "DynS" THEN "DynN" ELSE "DynS"])})

\* The reads. A read changes neither the value nor a slice, so a read that
\* follows a read reaches nothing a single read does not: the caller is
\* modelled as doing something else between two reads.
ReadOps == {"Equal", "String", "ToTerraformValue"}

CallEqual ==
  /\ UNCHANGED engine
  /\ l # ZeroList
  /\ op \notin ReadOps
  /\ \E o \in Partners(View(l, heap)) :
       ret' = [o |-> o, result |-> Equal(View(l, heap), o)]
  /\ op' = "Equal"
  /\ UNCHANGED <<heap, l, arg, got, writes>>

CallString ==
  /\ UNCHANGED engine
  /\ l # ZeroList
  /\ op \notin ReadOps
  /\ ret' = [result |-> String(View(l, heap))]
  /\ op' = "String"
  /\ UNCHANGED <<heap, l, arg, got, writes>>

CallToTerraformValue ==
  /\ UNCHANGED engine
  /\ l # ZeroList
  /\ op \notin ReadOps
  /\ ret' = ToTerraformValue(View(l, heap))
  /\ op' = "ToTerraformValue"
  /\ UNCHANGED <<heap, l, arg, got, writes>>

\* The caller drops the value and every slice it holds.
Release ==
  /\ op # "none"
  /\ heap' = EmptyHeap
  /\ l' = ZeroList
  /\ arg' = NilSlice
  /\ got' = <<>>
  /\ writes' = 0
  /\ op' = "none"
  /\ ret' = <<>>
  /\ req' = <<>>
  /\ resp' = <<>>
  /\ attribute' = <<>>

Next ==
  \/ CallNewListNull
  \/ CallNewListUnknown
  \/ CallNewListValue
  \/ CallNewListValueMust
  \/ CallElements
  \/ WriteSlice
  \/ AppendSlice
  \/ TruncateSlice
  \/ CallEqual
  \/ CallString
  \/ CallToTerraformValue
  \/ Release

Spec == Init /\ [][Next]_vars

(***************************************************************************)
(* Binding through the reflection collaborator: ElementsAs and             *)
(* NewListValueFrom.                                                       *)
(***************************************************************************)
\* diag.NewErrorDiagnostic(summary, detail) / diag.NewWarningDiagnostic
ErrorDiagnostic(summary, detail) ==
  [severity |-> "Error", summary |-> summary, detail |-> detail]
WarningDiagnostic(summary, detail) ==
  [severity |-> "Warning", summary |-> summary, detail |-> detail]

\* The diagnostics the reflection collaborator can hand back.
ReflectDiags ==
  {<<>>,
   <<WarningDiagnostic("Value Conversion Warning", "reflect")>>,
   <<ErrorDiagnostic("Value Conversion Error", "reflect")>>,
   <<WarningDiagnostic("Value Conversion Warning", "reflect"),
     ErrorDiagnostic("Value Conversion Error", "reflect")>>}

\* reflect.Options{}: the zero value.
ZeroOptions == [UnhandledNullAsEmpty |-> FALSE, UnhandledUnknownAsEmpty |-> FALSE]

\* ElementsAs that sets UnhandledNullAsEmpty only.
ElementsAs_NullOnly(v, allowUnhandled, into) ==
  LET c == ToTerraformValue(v)
  IN IF c.panicked
     THEN [panicked |-> TRUE, intoCalled |-> FALSE, typ |-> v.elementType,
           val |-> c.val, opts |-> ZeroOptions, diags |-> <<>>]
     ELSE IF c.err # NoError
     THEN [panicked |-> FALSE, intoCalled |-> FALSE, typ |-> v.elementType,
           val |-> c.val, opts |-> ZeroOptions,
           diags |-> <<ErrorDiagnostic("List Element Conversion Error", c.err)>>]
     ELSE [panicked |-> FALSE, intoCalled |-> TRUE, typ |-> v.elementType,
           val |-> c.val,
           opts |-> [UnhandledNullAsEmpty |-> allowUnhandled,
                     UnhandledUnknownAsEmpty |-> FALSE],
           diags |-> into]

\* l.ElementsAs(ctx, target, allowUnhandled) on the view v of l. into is what
\* reflect.Into reports for the call it receives (typ, val, opts); intoCalled
\* tells whether the call was made.
ElementsAs(v, allowUnhandled, into) ==
  LET c == ToTerraformValue(v)
  IN IF c.panicked
     THEN [panicked |-> TRUE, intoCalled |-> FALSE, typ |-> v.elementType,
           val |-> c.val, opts |-> ZeroOptions, diags |-> <<>>]
     ELSE IF c.err # NoError
     THEN [panicked |-> FALSE, intoCalled |-> FALSE, typ |-> v.elementType,
           val |-> c.val, opts |-> ZeroOptions,
           diags |-> <<ErrorDiagnostic("List Element Conversion Error", c.err)>>]
     ELSE [panicked |-> FALSE, intoCalled |-> TRUE, typ |-> v.elementType,
           val |-> c.val,
           opts |-> [UnhandledNullAsEmpty |-> allowUnhandled,
                     UnhandledUnknownAsEmpty |-> allowUnhandled],
           diags |-> into]

\* What reflect.FromValue(ctx, ListType{ElemType: t}, elements, path) can
\* return for some native value: a Known list over a fresh slice at address 1
\* (es its elements), a value that is no ListValue, or nothing; each beside
\* diagnostics.
FromValueResults(t) ==
  {[isList |-> TRUE, es |-> es, diags |-> d] :
     es \in SeqsUpTo({e \in ElemVals : TypeOf(e) = t}, MaxLen),
     d \in {x \in ReflectDiags : ~HasError(x)}}
  \cup {[isList |-> FALSE, es |-> <<>>, diags |-> d] : d \in ReflectDiags}

\* attrValue as the ListValue struct FromValue built.
FromValueList(t, fv) ==
  [elementType |-> t, state |-> "Known",
   elements |-> [arr |-> 1, len |-> Len(fv.es)]]

\* NewListValueFrom without the diags.HasError() return.
NewListValueFrom_NoErrorCheck(elementType, fv) ==
  IF ~fv.isList
  THEN [panicked |-> FALSE, list |-> ZeroList,
        diags |-> Append(fv.diags, ErrorDiagnostic("Unable to Convert List Value",
                                                   "unexpected result"))]
  ELSE [panicked |-> FALSE, list |-> FromValueList(elementType, fv),
        diags |-> fv.diags]

\* NewListValueFrom(ctx, elementType, elements), fv being what reflect.FromValue
\* returned. The function has no panic of its own.
NewListValueFrom(elementType, fv) ==
  IF HasError(fv.diags)
  THEN [panicked |-> FALSE, list |-> NewListUnknown(elementType), diags |-> fv.diags]
  ELSE IF ~fv.isList
  THEN [panicked |-> FALSE, list |-> ZeroList,
        diags |-> Append(fv.diags, ErrorDiagnostic("Unable to Convert List Value",
                                                   "unexpected result"))]
  ELSE [panicked |-> FALSE, list |-> FromValueList(elementType, fv),
        diags |-> fv.diags]

CallElementsAs ==
  /\ l # ZeroList
  /\ op # "ElementsAs"
  /\ \E allowUnhandled \in BOOLEAN, into \in ReflectDiags :
       LET r == ElementsAs(View(l, heap), allowUnhandled, into)
       IN ret' = [allowUnhandled |-> allowUnhandled, panicked |-> r.panicked,
                  intoCalled |-> r.intoCalled, typ |-> r.typ, val |-> r.val,
                  opts |-> r.opts, diags |-> r.diags]
  /\ op' = "ElementsAs"
  /\ UNCHANGED <<heap, l, arg, got, writes>>
  /\ UNCHANGED engine

\* The slice FromValue built is reachable through the returned value only.
CallNewListValueFrom ==
  /\ op = "none"
  /\ \E t \in ElemTypes :
       \E fv \in FromValueResults(t) :
         LET r == NewListValueFrom(t, fv)
         IN /\ l' = r.list
            /\ heap' = Collect([heap EXCEPT ![1] = fv.es], {r.list.elements})
            /\ ret' = [elementType |-> t, fromValue |-> fv,
                       panicked |-> r.panicked, diags |-> r.diags]
  /\ op' = "NewListValueFrom"
  /\ UNCHANGED <<arg, got, writes>>
  /\ UNCHANGED engine

NextBind ==
  \/ CallNewListNull
  \/ CallNewListUnknown
  \/ CallNewListValue
  \/ CallNewListValueFrom
  \/ CallElementsAs
  \/ Release

SpecBind == Init /\ [][NextBind]_vars

(***************************************************************************)
(* Semantic equality of dynamic values.                                    *)
(***************************************************************************)
\* attr.Value as the engine handles it: val tells values apart, state is its
\* state, withSemanticEquals whether its Go type implements
\* basetypes.DynamicValuableWithSemanticEquals.
SemValues ==
  [val : {"a", "b"}, state : {"Null", "Unknown", "Known"}, withSemanticEquals : BOOLEAN]

\* diag.Diagnostics values of the engine: warnings and errors.
EngineDiagVals ==
  {WarningDiagnostic("Semantic Equality Warning", "w"),
   ErrorDiagnostic("Semantic Equality Error", "e")}
EngineDiags == SeqsUpTo(EngineDiagVals, MaxDiags)

\* What the provider's DynamicSemanticEquals can return.
Callbacks == [usePriorValue : BOOLEAN, diags : EngineDiags]

\* resp.Diagnostics.Append(diags...)
DiagnosticsAppend(existing, diags) == existing \o diags

\* ValueSemanticEqualityDynamic that asserts the interface on the proposed
\* new value only.
ValueSemanticEqualityDynamic_ProposedOnly(rq, rs, cb) ==
  IF ~rq.ProposedNewValue.withSemanticEquals
  THEN [resp |-> rs, invoked |-> FALSE]
  ELSE LET diags == DiagnosticsAppend(rs.Diagnostics, cb.diags)
       IN IF ~cb.usePriorValue
          THEN [resp |-> [rs EXCEPT !.Diagnostics = diags], invoked |-> TRUE]
          ELSE [resp |-> [NewValue |-> rq.PriorValue, Diagnostics |-> diags],
                invoked |-> TRUE]

\* ValueSemanticEqualityDynamic that returns on error diagnostics before it
\* sets resp.NewValue.
ValueSemanticEqualityDynamic_ErrorsKeepProposed(rq, rs, cb) ==
  IF ~rq.PriorValue.withSemanticEquals
  THEN [resp |-> rs, invoked |-> FALSE]
  ELSE IF ~rq.ProposedNewValue.withSemanticEquals
  THEN [resp |-> rs, invoked |-> FALSE]
  ELSE LET diags == DiagnosticsAppend(rs.Diagnostics, cb.diags)
       IN IF ~cb.usePriorValue \/ HasError(cb.diags)
          THEN [resp |-> [rs EXCEPT !.Diagnostics = diags], invoked |-> TRUE]
          ELSE [resp |-> [NewValue |-> rq.PriorValue, Diagnostics |-> diags],
                invoked |-> TRUE]

\* ValueSemanticEqualityDynamic(ctx, req, resp): rq the request, rs the
\* response as it stands, cb what proposedNewValuable.DynamicSemanticEquals
\* returns if it is called. The result is the response as left behind and
\* whether the callback was called.
ValueSemanticEqualityDynamic(rq, rs, cb) ==
  IF ~rq.PriorValue.withSemanticEquals
  THEN [resp |-> rs, invoked |-> FALSE]
  ELSE IF ~rq.ProposedNewValue.withSemanticEquals
  THEN [resp |-> rs, invoked |-> FALSE]
  ELSE LET diags == DiagnosticsAppend(rs.Diagnostics, cb.diags)
       IN IF ~cb.usePriorValue
          THEN [resp |-> [rs EXCEPT !.Diagnostics = diags], invoked |-> TRUE]
          ELSE [resp |-> [NewValue |-> rq.PriorValue, Diagnostics |-> diags],
                invoked |-> TRUE]

\* The engine's entry point without the check of the states.
ValueSemanticEquality_NoGate(rq, rs, cb) == ValueSemanticEqualityDynamic(rq, rs, cb)

\* The engine's entry point for a dynamic value: nothing is done unless both
\* values are Known; otherwise the type-specific function runs.
ValueSemanticEquality(rq, rs, cb) ==
  IF rq.PriorValue.state # "Known" \/ rq.ProposedNewValue.state # "Known"
  THEN [resp |-> rs, invoked |-> FALSE]
  ELSE ValueSemanticEqualityDynamic(rq, rs, cb)

\* No callback ran.
NoCallback == [usePriorValue |-> FALSE, diags |-> <<>>]

\* The engine prepares a request and a response that starts with the
\* proposed new value and the diagnostics gathered so far.
MakeSemanticEqualityRequest ==
  /\ op = "none"
  /\ \E prior \in SemValues, proposed \in SemValues, existing \in EngineDiags :
       /\ req' = [PriorValue |-> prior, ProposedNewValue |-> proposed]
       /\ resp' = [NewValue |-> proposed, Diagnostics |-> existing]
  /\ op' = "Request"
  /\ UNCHANGED <<heap, l, arg, got, writes, ret, attribute>>

CallValueSemanticEqualityDynamic ==
  /\ op = "Request"
  /\ \E cb \in Callbacks :
       LET r == ValueSemanticEqualityDynamic(req, resp, cb)
       IN /\ resp' = r.resp
          /\ ret' = [before |-> resp, invoked |-> r.invoked,
                     callback |-> IF r.invoked THEN cb ELSE NoCallback]
  /\ op' = "ValueSemanticEqualityDynamic"
  /\ UNCHANGED <<heap, l, arg, got, writes, req, attribute>>

CallValueSemanticEquality ==
  /\ op = "Request"
  /\ \E cb \in Callbacks :
       LET r == ValueSemanticEquality(req, resp, cb)
       IN /\ resp' = r.resp
          /\ ret' = [before |-> resp, invoked |-> r.invoked,
                     callback |-> IF r.invoked THEN cb ELSE NoCallback]
  /\ op' = "ValueSemanticEquality"
  /\ UNCHANGED <<heap, l, arg, got, writes, req, attribute>>

NextSemanticEquality ==
  \/ MakeSemanticEqualityRequest
  \/ CallValueSemanticEqualityDynamic
  \/ CallValueSemanticEquality
  \/ Release

SpecSemanticEquality == Init /\ [][NextSemanticEquality]_vars

(***************************************************************************)
(* Validation of a ListAttribute definition.                               *)
(***************************************************************************)
\* attr.Type values. String and Number have no element types; Dynamic
\* implements attr.TypeWithDynamicValue; List, Set and Map implement
\* attr.TypeWithElementType; Tuple attr.TypeWithElementTypes; Object
\* attr.TypeWithAttributeTypes.
LeafType(k) == [kind |-> k]
CollectionType(k, t) == [kind |-> k, elem |-> t]
TupleType(ts) == [kind |-> "Tuple", elems |-> ts]

\* Attribute names of object types, in the order used to build them.
AttrNames == <<"a", "b">>

\* The object type whose attributes, named after AttrNames, have the types ts.
ObjectType(ts) ==
  [kind |-> "Object",
   attrs |-> [n \in {AttrNames[i] : i \in 1..Len(ts)} |->
                ts[CHOOSE i \in 1..Len(ts) : AttrNames[i] = n]]]

\* The attr.Type values made of exactly n type descriptors, and the
\* sequences of attr.Type values made of exactly n in total.
RECURSIVE TypesOfSize(_)
RECURSIVE TypeSeqsOfSize(_)
TypesOfSize(n) ==
  IF n < 1 THEN {}
  ELSE (IF n = 1 THEN {LeafType(k) : k \in {"String", "Number", "Dynamic"}} ELSE {})
       \cup {CollectionType(k, t) : k \in {"List", "Set", "Map"}, t \in TypesOfSize(n - 1)}
       \cup {TupleType(ts) : ts \in TypeSeqsOfSize(n - 1)}
       \cup {ObjectType(ts) : ts \in {x \in TypeSeqsOfSize(n - 1) : Len(x) <= Len(AttrNames)}}
TypeSeqsOfSize(n) ==
  IF n = 0 THEN {<<>>}
  ELSE UNION {{<<t>> \o ts : t \in TypesOfSize(k), ts \in TypeSeqsOfSize(n - k)} :
                k \in 1..n}

AttrTypes == UNION {TypesOfSize(n) : n \in 1..MaxTypeNodes}

\* A nil attr.Type / a nil basetypes.ListTypable / a nil defaults.List.
NilType == [kind |-> "nil"]
NilCustomType == "nil"
NoDefault == [set |-> FALSE, diags |-> <<>>, elementType |-> NilType]

\* What a defaults.List implementation can answer to DefaultList: its
\* diagnostics and the element type of its PlanValue.
Defaults ==
  {NoDefault,
   [set |-> TRUE, diags |-> <<>>, elementType |-> LeafType("String")],
   [set |-> TRUE, diags |-> <<ErrorDiagnostic("Default Error", "default")>>,
    elementType |-> NilType]}

\* ListAttribute values: the fields ValidateImplementation reads.
ListAttributes ==
  [ElementType : AttrTypes \cup {NilType}, CustomType : {NilCustomType, "custom"},
   Computed : BOOLEAN, Default : Defaults]

\* A nil diag.Diagnostic.
NilDiag == [severity |-> "nil", summary |-> "", detail |-> "", path |-> ""]

\* diag.NewAttributeErrorDiagnostic(path, summary, detail)
AttributeErrorDiagnostic(attrPath, summary, detail) ==
  [severity |-> "Error", summary |-> summary, detail |-> detail, path |-> attrPath]

CollectionWithDynamicTypeDiag(attrPath) ==
  AttributeErrorDiagnostic(attrPath, "Invalid Schema Implementation",
                           "collection type with a nested dynamic type")
AttributeMissingElementTypeDiag(attrPath) ==
  AttributeErrorDiagnostic(attrPath, "Invalid Attribute Implementation",
                           "missing a CustomType or ElementType")
nonComputedAttributeWithDefaultDiag(attrPath) ==
  AttributeErrorDiagnostic(attrPath, "Schema Using Attribute Default For Non-Computed Attribute",
                           "must be computed when using default")
AttributeDefaultElementTypeMismatchDiag(attrPath, expected, actual) ==
  AttributeErrorDiagnostic(attrPath, "Invalid Attribute Implementation",
                           <<"default element type mismatch", expected, actual>>)

\* resp.Diagnostics.Append(d) with one diagnostic: nil is not added.
AppendDiagnostic(diags, d) == IF d = NilDiag THEN diags ELSE Append(diags, d)

\* The orders in which range can run over the attributes of an object type.
RangeOrders ==
  {o \in [1..Len(AttrNames) -> Range(AttrNames)] :
     \A i \in 1..Len(AttrNames), j \in 1..Len(AttrNames) : o[i] = o[j] => i = j}

\* attrType.AttributeTypes() in the order range visits it.
RECURSIVE InRangeOrder(_, _, _, _)
InRangeOrder(attrs, order, i, res) ==
  IF i > Len(order) THEN res
  ELSE InRangeOrder(attrs, order, i + 1,
         IF order[i] \in DOMAIN attrs THEN Append(res, attrs[order[i]]) ELSE res)

RECURSIVE checkAttrTypeForDynamics(_, _, _)
RECURSIVE CheckEach(_, _, _, _, _)

\* checkAttrTypeForDynamics whose tuple loop returns after its first
\* iteration.
checkAttrTypeForDynamics_FirstTupleElement(attrPath, typ, order) ==
  CASE typ.kind = "Dynamic" ->
         [diag |-> CollectionWithDynamicTypeDiag(attrPath), visited |-> <<typ>>]
    [] typ.kind \in {"List", "Set", "Map"} ->
         LET r == checkAttrTypeForDynamics(attrPath, typ.elem, order)
         IN [diag |-> r.diag, visited |-> <<typ>> \o r.visited]
    [] typ.kind = "Tuple" ->
         CheckEach(attrPath, IF typ.elems = <<>> THEN <<>> ELSE <<typ.elems[1]>>,
                   1, order, <<typ>>)
    [] typ.kind = "Object" ->
         CheckEach(attrPath, InRangeOrder(typ.attrs, order, 1, <<>>), 1, order, <<typ>>)
    [] OTHER -> [diag |-> NilDiag, visited |-> <<typ>>]

\* checkAttrTypeForDynamics(attrPath, typ): the diagnostic returned, and the
\* types the walk looked at, in order. order is the order in which range
\* visits the attributes of object types.
checkAttrTypeForDynamics(attrPath, typ, order) ==
  CASE typ.kind = "Dynamic" ->
         [diag |-> CollectionWithDynamicTypeDiag(attrPath), visited |-> <<typ>>]
    [] typ.kind \in {"List", "Set", "Map"} ->
         LET r == checkAttrTypeForDynamics(attrPath, typ.elem, order)
         IN [diag |-> r.diag, visited |-> <<typ>> \o r.visited]
    [] typ.kind = "Tuple" ->
         CheckEach(attrPath, typ.elems, 1, order, <<typ>>)
    [] typ.kind = "Object" ->
         CheckEach(attrPath, InRangeOrder(typ.attrs, order, 1, <<>>), 1, order, <<typ>>)
    [] OTHER -> [diag |-> NilDiag, visited |-> <<typ>>]

\* The loops over the element types of a tuple and the attribute types of an
\* object: the first diagnostic that is not nil is returned.
CheckEach(attrPath, types, i, order, visited) ==
  IF i > Len(types) THEN [diag |-> NilDiag, visited |-> visited]
  ELSE LET r == checkAttrTypeForDynamics(attrPath, types[i], order)
       IN IF r.diag # NilDiag
          THEN [diag |-> r.diag, visited |-> visited \o r.visited]
          ELSE CheckEach(attrPath, types, i + 1, order, visited \o r.visited)

\* a.ValidateImplementation(ctx, req, resp): the response as left behind and
\* the types checkAttrTypeForDynamics looked at.
ValidateImplementation(a, rq, rs, order) ==
  LET d1 == IF a.CustomType = NilCustomType /\ a.ElementType = NilType
            THEN AppendDiagnostic(rs.Diagnostics, AttributeMissingElementTypeDiag(rq.Path))
            ELSE rs.Diagnostics
      walk == IF a.ElementType # NilType
              THEN checkAttrTypeForDynamics(rq.Path, a.ElementType, order)
              ELSE [diag |-> NilDiag, visited |-> <<>>]
      d2 == AppendDiagnostic(d1, walk.diag)
      d3 == IF ~a.Default.set THEN d2
            ELSE LET d4 == IF ~a.Computed
                           THEN AppendDiagnostic(d2, nonComputedAttributeWithDefaultDiag(rq.Path))
                           ELSE d2
                     d5 == DiagnosticsAppend(d4, a.Default.diags)
                 IN IF HasError(a.Default.diags) THEN d5
                    ELSE IF a.ElementType # NilType /\ a.ElementType # a.Default.elementType
                    THEN AppendDiagnostic(d5,
                           AttributeDefaultElementTypeMismatchDiag(
                             rq.Path, a.ElementType, a.Default.elementType))
                    ELSE d5
  IN [resp |-> [Diagnostics |-> d3], visited |-> walk.visited]

\* The provider defines an attribute; the framework prepares the request and
\* an empty response for its validation.
DefineListAttribute ==
  /\ op = "none"
  /\ \E a \in ListAttributes :
       /\ attribute' = a
       /\ req' = [Path |-> "list_attribute"]
       /\ resp' = [Diagnostics |-> <<>>]
  /\ op' = "Defined"
  /\ UNCHANGED <<heap, l, arg, got, writes, ret>>

CallValidateImplementation ==
  /\ op = "Defined"
  /\ \E order \in RangeOrders :
       LET r == ValidateImplementation(attribute, req, resp, order)
       IN /\ resp' = r.resp
          /\ ret' = [before |-> resp, visited |-> r.visited]
  /\ op' = "ValidateImplementation"
  /\ UNCHANGED <<heap, l, arg, got, writes, req, attribute>>

NextValidate ==
  \/ DefineListAttribute
  \/ CallValidateImplementation
  \/ Release

SpecValidate == Init /\ [][NextValidate]_vars

(***************************************************************************)
(* Properties.                                                             *)
(***************************************************************************)
\* The value under test as its readers see it.
Cur == View(l, heap)

Min(S) == CHOOSE x \in S : \A y \in S : x <= y

\* The indices of es whose element type differs from t.
Offending(t, es) == {i \in 1..Len(es) : TypeOf(es[i]) # t}

\* C1: NewListValue with some element of another type returns one error
\* diagnostic per offending index, naming the index and both types, and the
\* Unknown value of the declared type with no elements; with every element
\* of the declared type it returns no diagnostics and the Known value that
\* holds the given elements in order.
C1_NewListValueResult ==
  op = "NewListValue" =>
    LET t == ret.elementType
        es == ret.elements
        bad == Offending(t, es)
    IN IF bad # {}
       THEN /\ Len(ret.diags) = Cardinality(bad)
            /\ \A i \in bad : \E k \in 1..Len(ret.diags) :
                 ret.diags[k] = [severity |-> "Error",
                                 summary |-> "Invalid List Element Type",
                                 listElementType |-> t,
                                 index |-> i - 1,
                                 elementTypeAtIndex |-> TypeOf(es[i])]
            /\ l = [elementType |-> t, state |-> "Unknown", elements |-> NilSlice]
            /\ Cur.elements = <<>>
       ELSE /\ ret.diags = <<>>
            /\ l.state = "Known"
            /\ l.elementType = t
            /\ Cur.elements = es

\* A string list given a string and a number: one diagnostic for index 1.
C1_Witness ==
  /\ op = "NewListValue"
  /\ ret.elementType = "String"
  /\ ret.elements = <<"Sx", "N1">>
  /\ Len(ret.diags) = 1
  /\ l.state = "Unknown"

ConstructorOps == {"NewListNull", "NewListUnknown", "NewListValue", "NewListValueMust"}

\* C2: a value a constructor has just returned holds no elements when it is
\* Null or Unknown, and ElementType() is then still the type it was
\* constructed with; when it is Known every element has the declared type.
C2_ConstructedValueWellFormed ==
  (op \in ConstructorOps /\ ~(op = "NewListValueMust" /\ ret.panicked)) =>
    /\ ElementType(l) = ret.elementType
    /\ l.state \in {"Null", "Unknown"} => (l.elements = NilSlice /\ Cur.elements = <<>>)
    /\ l.state = "Known" =>
         \A i \in 1..Len(Cur.elements) : TypeOf(Cur.elements[i]) = ElementType(l)
    /\ l.state \in {"Null", "Unknown", "Known"}

\* A null list of dynamic element type.
C2_Witness ==
  /\ op = "NewListNull"
  /\ l.state = "Null"
  /\ ElementType(l) = "Dynamic"

\* C3: Equal is true exactly when o is a list, the element types are equal,
\* the states are equal and, for Known values, the elements are as many and
\* pairwise equal in order.
C3_EqualCharacterised ==
  op = "Equal" =>
    LET o == ret.o
    IN ret.result <=>
         /\ o.isList
         /\ o.elementType = Cur.elementType
         /\ o.state = Cur.state
         /\ Cur.state = "Known" =>
              /\ Len(o.elements) = Len(Cur.elements)
              /\ \A i \in 1..Len(Cur.elements) : o.elements[i] = Cur.elements[i]

\* A known list compared with the null list of its type: not equal.
C3_Witness ==
  /\ op = "Equal"
  /\ Cur.state = "Known"
  /\ Len(Cur.elements) = MaxLen
  /\ ret.o = MakeList(Cur.elementType, "Null", <<>>)
  /\ ret.result = FALSE

\* C4: a list equals itself, and Equal gives the same answer with receiver
\* and argument exchanged.
C4_EqualReflexiveSymmetric ==
  op = "Equal" =>
    /\ ret.o = Cur => ret.result = TRUE
    /\ ret.o.isList => ret.result = Equal(ret.o, Cur)

\* A known list compared with a longer known list of the same type.
C4_Witness ==
  /\ op = "Equal"
  /\ ret.o.isList
  /\ Cur.state = "Known" /\ ret.o.state = "Known"
  /\ ret.o.elementType = Cur.elementType
  /\ Len(ret.o.elements) > Len(Cur.elements)
  /\ Len(Cur.elements) > 0
  /\ ret.result = FALSE

WriteOps == {"WriteSlice", "AppendSlice", "TruncateSlice"}

\* C5: the slice Elements() returns shows the elements of l and shares its
\* array with no other slice: not with the elements of l, not with the
\* slice passed to the constructor, not with another Elements() result; and
\* after the caller has replaced an entry of, appended to or truncated a
\* slice Elements() returned, the other slices it holds and the value (its
\* elements, its String, its ToTerraformValue, its Equal to itself) are as
\* they were before the write.
C5_ElementsReturnsCopy ==
  /\ op = "Elements" => SliceOf(heap, ret.slice) = Cur.elements
  /\ \A i \in 1..Len(got) :
       /\ got[i].arr # l.elements.arr
       /\ got[i].arr # arg.arr
       /\ \A j \in 1..Len(got) : i # j => got[i].arr # got[j].arr
  /\ (op \in WriteOps /\ ret.target > 0) =>
       /\ Cur = ret.before.list
       /\ String(Cur) = String(ret.before.list)
       /\ ToTerraformValue(Cur) = ToTerraformValue(ret.before.list)
       /\ Equal(Cur, ret.before.list)
       /\ SliceOf(heap, arg) = ret.before.arg
       /\ \A j \in 1..Len(got) :
            j # ret.target => SliceOf(heap, got[j]) = ret.before.got[j]

\* The caller has overwritten an entry of the first of two Elements()
\* results; the second and l still show the original elements.
C5_Witness ==
  /\ op = "WriteSlice"
  /\ ret.target = 1
  /\ Len(got) = 2
  /\ l.state = "Known"
  /\ SliceOf(heap, got[1]) # Cur.elements
  /\ SliceOf(heap, got[2]) = Cur.elements
  /\ Len(Cur.elements) = MaxLen

\* C6: after a write of the caller to the slice it passed to NewListValue,
\* the returned value holds the elements it held before the write.
C6_ImmutableAfterConstruction ==
  (op \in WriteOps /\ ret.target = 0) => Cur = ret.before.list

\* The elements of es that convert without error to a wire value that is not
\* a dynamic placeholder.
ConcreteIdx(es) ==
  {i \in 1..Len(es) :
     /\ ElemToTerraformValue(es[i]).err = NoError
     /\ ElemToTerraformValue(es[i]).val.typ # DynamicPseudoType}

\* The wire type of the first of them.
FirstConcrete(es) == ElemToTerraformValue(es[Min(ConcreteIdx(es))]).val.typ

\* C7: for a Known list of dynamic element type with an element of concrete
\* wire type, the returned wire value is typed list of the wire type of the
\* first such element.
C7_WireListTypeResolved ==
  (/\ op = "ToTerraformValue"
   /\ Cur.state = "Known"
   /\ Cur.elementType = "Dynamic"
   /\ ConcreteIdx(Cur.elements) # {}) =>
     ret.val.typ = [kind |-> "list", elem |-> FirstConcrete(Cur.elements)]

\* No element conversion of es fails.
NoElementError(es) == \A i \in 1..Len(es) : ElemToTerraformValue(es[i]).err = NoError

\* C8: for a Known list of dynamic element type with an element of concrete
\* wire type T (the first such in order): when no element conversion fails
\* and every concrete element has wire type T, the payload is returned
\* without error, every element of it has wire type T, a null dynamic
\* placeholder has become the null marker of T, an unknown one the unknown
\* marker of T, and the other elements are as converted; and whenever a
\* payload is returned all its elements have wire type T.
C8_PlaceholdersRetyped ==
  (/\ op = "ToTerraformValue"
   /\ Cur.state = "Known"
   /\ Cur.elementType = "Dynamic"
   /\ ConcreteIdx(Cur.elements) # {}) =>
     LET es == Cur.elements
         T == FirstConcrete(es)
         conv(i) == ElemToTerraformValue(es[i]).val
     IN /\ (/\ NoElementError(es)
            /\ \A i \in ConcreteIdx(es) : conv(i).typ = T) =>
              /\ ret.err = NoError
              /\ ret.val.state = "known"
        /\ ret.val.state = "known" =>
              /\ Len(ret.val.payload) = Len(es)
              /\ \A i \in 1..Len(es) :
                   /\ ret.val.payload[i].typ = T
                   /\ IF conv(i).typ = DynamicPseudoType
                      THEN /\ conv(i).state = "null" =>
                                ret.val.payload[i] = [typ |-> T, state |-> "null", payload |-> <<>>]
                           /\ conv(i).state = "unknown" =>
                                ret.val.payload[i] = [typ |-> T, state |-> "unknown", payload |-> <<>>]
                      ELSE ret.val.payload[i] = conv(i)

\* [unknown-dynamic, known-string]: two elements of wire type String, the
\* first still unknown.
C8_Witness ==
  /\ op = "ToTerraformValue"
  /\ l.state = "Known" /\ l.elementType = "Dynamic"
  /\ Cur.elements = <<"DynUnk", "DynS">>
  /\ ret.err = NoError
  /\ ret.val.payload = <<[typ |-> TfString, state |-> "unknown", payload |-> <<>>],
                         [typ |-> TfString, state |-> "known", payload |-> <<"x">>]>>

\* The wire type of the list of declared element type t.
WireListType(t) ==
  [kind |-> "list",
   elem |-> [kind |-> "primitive",
             name |-> CASE t = "String" -> "String"
                        [] t = "Number" -> "Number"
                        [] t = "Dynamic" -> "DynamicPseudoType"]]

\* C9: ToTerraformValue on a Null list returns, with no error, the null
\* marker typed list of the declared element type's wire type, and on an
\* Unknown list the unknown marker of that type.
C9_NullUnknownMarkers ==
  (op = "ToTerraformValue" /\ l.state # "Known") =>
    /\ ret.err = NoError
    /\ ret.panicked = FALSE
    /\ ret.val.typ = WireListType(l.elementType)
    /\ ret.val.payload = <<>>
    /\ l.state = "Null" => ret.val.state = "null"
    /\ l.state = "Unknown" => ret.val.state = "unknown"

\* The null list of dynamic element type: the null marker of list of
\* DynamicPseudoType.
C9_Witness ==
  /\ op = "ToTerraformValue"
  /\ l.state = "Null"
  /\ l.elementType = "Dynamic"
  /\ ret.val = [typ |-> WireListType("Dynamic"), state |-> "null", payload |-> <<>>]

\* C10: ToTerraformValue on a Known list does not panic; when an element
\* conversion fails it returns the error of the first failing element, when
\* the converted elements do not all have one wire type usable as the list's
\* element wire type it returns an error, and with any error it returns the
\* unknown marker of the list's wire type, never a known payload.
C10_ErrorsReturnedWithUnknown ==
  (op = "ToTerraformValue" /\ l.state = "Known") =>
    LET es == Cur.elements
        failing == {i \in 1..Len(es) : ElemToTerraformValue(es[i]).err # NoError}
        wire(i) == ElemToTerraformValue(es[i]).val.typ
        declared == WireListType(l.elementType).elem
        concrete == {wire(i) : i \in ConcreteIdx(es)}
    IN /\ ret.panicked = FALSE
       /\ failing # {} => ret.err = ElemToTerraformValue(es[Min(failing)]).err
       /\ (/\ failing = {}
           /\ \/ Cardinality(concrete) > 1
              \/ \E T \in concrete : declared # DynamicPseudoType /\ T # declared) =>
            ret.err # NoError
       /\ ret.err # NoError =>
            ret.val = [typ |-> WireListType(l.elementType), state |-> "unknown",
                       payload |-> <<>>]
       /\ ret.val.state = "known" => ret.err = NoError

\* A dynamic list holding a string and a number: the payload does not
\* validate, and the error comes back with the unknown marker.
C10_Witness ==
  /\ op = "ToTerraformValue"
  /\ l.state = "Known" /\ l.elementType = "Dynamic"
  /\ Cur.elements = <<"DynS", "DynN">>
  /\ ret.err = "lists must only contain one type of element"
  /\ ret.val.state = "unknown"
  /\ ret.panicked = FALSE

\* C11 (as stated): ElementsAs hands the collaborator two independent
\* caller-supplied flags: whatever pair of settings for "unhandled null as
\* empty" and "unhandled unknown as empty" is wanted, some call of ElementsAs
\* on the value passes exactly that pair.
C11_FlagsIndependent ==
  (op = "ElementsAs" /\ ret.intoCalled) =>
    \A n \in BOOLEAN, u \in BOOLEAN :
      \E allowUnhandled \in BOOLEAN :
        ElementsAs(Cur, allowUnhandled, ret.diags).opts =
          [UnhandledNullAsEmpty |-> n, UnhandledUnknownAsEmpty |-> u]

\* C11 (amended): when ElementsAs reaches the collaborator, both options it
\* passes equal the one allowUnhandled argument of the caller, so they are
\* always enabled or disabled together; the collaborator's diagnostics are
\* returned as they are. When the wire conversion fails the collaborator is
\* not called and one error diagnostic is returned.
C11_FlagsFromOneArgument ==
  op = "ElementsAs" =>
    /\ ret.intoCalled =>
         /\ ret.opts.UnhandledNullAsEmpty = ret.allowUnhandled
         /\ ret.opts.UnhandledUnknownAsEmpty = ret.allowUnhandled
         /\ ret.val = ToTerraformValue(Cur).val
         /\ ret.typ = Cur.elementType
    /\ (~ret.intoCalled /\ ~ret.panicked) =>
         /\ ToTerraformValue(Cur).err # NoError
         /\ Len(ret.diags) = 1
         /\ ret.diags[1].severity = "Error"
         /\ ret.diags[1].summary = "List Element Conversion Error"

C11_Witness ==
  /\ op = "ElementsAs"
  /\ ret.intoCalled
  /\ ret.allowUnhandled
  /\ Cur.state = "Known"
  /\ Len(Cur.elements) > 0

\* C14 (as stated): NewListValueFrom panics when the reflection collaborator
\* reports a failure.
C14_PanicsOnReflectionFailure ==
  (op = "NewListValueFrom" /\ HasError(ret.fromValue.diags)) => ret.panicked

\* C14 (amended): when the reflection collaborator reports a failure,
\* NewListValueFrom does not panic: it returns the Unknown list of the given
\* element type together with exactly the collaborator's diagnostics.
C14_ReflectionFailureReturned ==
  (op = "NewListValueFrom" /\ HasError(ret.fromValue.diags)) =>
    /\ ~ret.panicked
    /\ Cur = View(NewListUnknown(ret.elementType), EmptyHeap)
    /\ ret.diags = ret.fromValue.diags

C14_Witness ==
  /\ op = "NewListValueFrom"
  /\ HasError(ret.fromValue.diags)
  /\ Len(ret.diags) > 1
  /\ l.state = "Unknown"

\* s occurs in m as a run of consecutive pieces.
Occurs(s, m) ==
  \E k \in 0..(Len(m) - Len(s)) : SubSeq(m, k + 1, k + Len(s)) = s

\* C15: NewListValueMust(elementType, elements) panics exactly when
\* NewListValue with the same arguments returns an error diagnostic, that is
\* when some element's type differs from elementType; the panic message then
\* holds the severity, the summary and the detail of every diagnostic. When
\* it does not panic it returns the Known value NewListValue returns, and in
\* no case an Unknown value.
C15_MustPanicsExactlyOnError ==
  op = "NewListValueMust" =>
    LET es == ret.elements
        hp == [EmptyHeap EXCEPT ![1] = es]
        r == NewListValue(ret.elementType, [arr |-> 1, len |-> Len(es)], hp)
    IN /\ ret.panicked <=> HasError(r.diags)
       /\ ret.panicked <=> Offending(ret.elementType, es) # {}
       /\ ret.panicked =>
            /\ l = ZeroList
            /\ \A i \in 1..Len(r.diags) :
                 /\ Occurs(<<r.diags[i].severity>>, ret.message)
                 /\ Occurs(<<r.diags[i].summary>>, ret.message)
                 /\ Occurs(Detail(r.diags[i]), ret.message)
                 /\ Occurs(DiagString(r.diags[i]), ret.message)
       /\ ~ret.panicked =>
            /\ l = r.list
            /\ Cur = View(r.list, hp)
            /\ Cur.state = "Known"
            /\ Cur.elements = es
       /\ l.state # "Unknown"

C15_Witness ==
  /\ op = "NewListValueMust"
  /\ ret.panicked
  /\ Cardinality(Offending(ret.elementType, ret.elements)) > 1
  /\ Len(ret.message) > 1

\* C12: the provider's semantic-equality callback is called only when the
\* prior value and the proposed new value are both Known; when either is
\* Null or Unknown the engine does not call it and leaves the response, with
\* the proposed new value in it, as it was.
C12_OnlyKnownValuesCompared ==
  op = "ValueSemanticEquality" =>
    /\ ret.invoked =>
         /\ req.PriorValue.state = "Known"
         /\ req.ProposedNewValue.state = "Known"
    /\ (req.PriorValue.state # "Known" \/ req.ProposedNewValue.state # "Known") =>
         /\ ~ret.invoked
         /\ resp = ret.before
         /\ resp.NewValue = req.ProposedNewValue

C12_Witness ==
  /\ op = "ValueSemanticEquality"
  /\ req.PriorValue.state = "Known"
  /\ req.ProposedNewValue.state = "Unknown"
  /\ req.PriorValue.withSemanticEquals
  /\ req.ProposedNewValue.withSemanticEquals
  /\ ~ret.invoked

\* C13: when ValueSemanticEqualityDynamic calls the callback, the response's
\* diagnostics afterwards are those it held before, in their order, followed
\* by those the callback returned, whatever the boolean; on true the
\* response's new value is the prior value, also when the returned
\* diagnostics hold errors; on false the new value is as it was.
C13_CallbackResultApplied ==
  (op = "ValueSemanticEqualityDynamic" /\ ret.invoked) =>
    LET before == ret.before.Diagnostics
        after == resp.Diagnostics
    IN /\ Len(after) = Len(before) + Len(ret.callback.diags)
       /\ SubSeq(after, 1, Len(before)) = before
       /\ SubSeq(after, Len(before) + 1, Len(after)) = ret.callback.diags
       /\ ret.callback.usePriorValue => resp.NewValue = req.PriorValue
       /\ ~ret.callback.usePriorValue => resp.NewValue = ret.before.NewValue

C13_Witness ==
  /\ op = "ValueSemanticEqualityDynamic"
  /\ ret.invoked
  /\ ret.callback.usePriorValue
  /\ HasError(ret.callback.diags)
  /\ ret.before.Diagnostics # <<>>
  /\ req.PriorValue # req.ProposedNewValue
  /\ resp.NewValue = req.PriorValue

\* C17: when the proposed new value, or the prior value, does not implement
\* the semantic-equality interface, ValueSemanticEqualityDynamic does not
\* call the callback and leaves the response's new value and diagnostics as
\* they were.
C17_NoActionWithoutInterface ==
  (/\ op = "ValueSemanticEqualityDynamic"
   /\ \/ ~req.ProposedNewValue.withSemanticEquals
      \/ ~req.PriorValue.withSemanticEquals) =>
    /\ ~ret.invoked
    /\ resp.NewValue = ret.before.NewValue
    /\ resp.Diagnostics = ret.before.Diagnostics

C17_Witness ==
  /\ op = "ValueSemanticEqualityDynamic"
  /\ req.ProposedNewValue.withSemanticEquals
  /\ ~req.PriorValue.withSemanticEquals
  /\ req.PriorValue.state = "Known"
  /\ req.ProposedNewValue.state = "Known"
  /\ ret.before.Diagnostics # <<>>
  /\ resp = ret.before

\* typ is the dynamic type or holds one at some depth.
RECURSIVE HasDynamic(_)
HasDynamic(typ) ==
  CASE typ.kind = "Dynamic" -> TRUE
    [] typ.kind \in {"List", "Set", "Map"} -> HasDynamic(typ.elem)
    [] typ.kind = "Tuple" -> \E i \in 1..Len(typ.elems) : HasDynamic(typ.elems[i])
    [] typ.kind = "Object" -> \E n \in DOMAIN typ.attrs : HasDynamic(typ.attrs[n])
    [] OTHER -> FALSE

\* The number of type descriptors typ is made of.
RECURSIVE SumSizes(_, _)
RECURSIVE TypeSize(_)
TypeSize(typ) ==
  CASE typ.kind \in {"List", "Set", "Map"} -> 1 + TypeSize(typ.elem)
    [] typ.kind = "Tuple" -> 1 + SumSizes(typ.elems, 1)
    [] typ.kind = "Object" -> 1 + SumSizes(InRangeOrder(typ.attrs, AttrNames, 1, <<>>), 1)
    [] OTHER -> 1
SumSizes(ts, i) == IF i > Len(ts) THEN 0 ELSE TypeSize(ts[i]) + SumSizes(ts, i + 1)

\* The positions of the nested dynamic type diagnostic in the response.
NestedDynamicDiags ==
  {i \in 1..Len(resp.Diagnostics) :
     resp.Diagnostics[i] = CollectionWithDynamicTypeDiag(req.Path)}

\* C16: validating a list attribute whose element type is dynamic or holds a
\* dynamic type at any depth (through list, set or map element types, tuple
\* element types or object attribute types) adds exactly one nested dynamic
\* type error, the walk ending at the first dynamic type it meets; an element
\* type with no dynamic type in it is walked through and adds none, and a
\* definition with a custom type only is not walked and adds none.
C16_NestedDynamicRejectedOnce ==
  op = "ValidateImplementation" =>
    LET et == attribute.ElementType
        n == Len(ret.visited)
    IN /\ (et # NilType /\ HasDynamic(et)) =>
            /\ Cardinality(NestedDynamicDiags) = 1
            /\ n >= 1
            /\ ret.visited[n].kind = "Dynamic"
            /\ \A i \in 1..(n - 1) : ret.visited[i].kind # "Dynamic"
       /\ (et # NilType /\ ~HasDynamic(et)) =>
            /\ NestedDynamicDiags = {}
            /\ n = TypeSize(et)
       /\ et = NilType =>
            /\ NestedDynamicDiags = {}
            /\ ret.visited = <<>>
       /\ (et = NilType /\ attribute.CustomType # NilCustomType /\ ~attribute.Default.set) =>
            resp.Diagnostics = <<>>

C16_Witness ==
  /\ op = "ValidateImplementation"
  /\ attribute.ElementType # NilType
  /\ attribute.ElementType.kind = "Tuple"
  /\ Len(attribute.ElementType.elems) = 2
  /\ ~HasDynamic(attribute.ElementType.elems[1])
  /\ HasDynamic(attribute.ElementType.elems[2])
  /\ attribute.ElementType.elems[2].kind # "Dynamic"
  /\ Cardinality(NestedDynamicDiags) = 1

====
